---------------------------- MODULE Spec2Model ----------------------------
(***************************************************************************)
(* Smart Hair Advisor: the conversational decision engine of               *)
(* app/services/chatbot_response.py together with the text analyser        *)
(* (text_analysis.py), the image keyword mapping (analysis.py) and the      *)
(* catalog matcher (matcher.py).                                            *)
(*                                                                         *)
(* Python strings are modelled as sequences of one-character strings, so    *)
(* that lower(), strip(), the `in` substring test, re.split and the \b      *)
(* word-boundary search are computed the way the code computes them.        *)
(* Python dicts are functions whose domain is the set of keys present.      *)
(* Floats that the code rounds to three decimals are integers counting      *)
(* thousandths.                                                             *)
(***************************************************************************)
EXTENDS Integers, Sequences, FiniteSets, TLC

(***************************************************************************)
(* A Python string is the sequence of its characters.                       *)
(***************************************************************************)
chars(s) == [i \in 1..Len(s) |-> SubSeq(s, i, i)]

m_Dry_FINE == chars("Dry FINE")

(***************************************************************************)
(* Python values without a string form of their own.                        *)
(***************************************************************************)
\* None (also what _to_serializable makes of a pandas NaN cell)
None == <<"#None">>
\* an empty spreadsheet cell as pandas reads it (float nan)
NaN == <<"#NaN">>

\* str(v) for a value that is a string, None or NaN
str(v) == IF v = None THEN chars("None")
          ELSE IF v = NaN THEN chars("nan")
          ELSE v

(***************************************************************************)
(* str methods and operators.                                               *)
(***************************************************************************)
UpperAlpha == <<"A", "B", "C", "D", "E", "F", "G", "H", "I", "J", "K", "L", "M",
                "N", "O", "P", "Q", "R", "S", "T", "U", "V", "W", "X", "Y", "Z">>
LowerAlpha == <<"a", "b", "c", "d", "e", "f", "g", "h", "i", "j", "k", "l", "m",
                "n", "o", "p", "q", "r", "s", "t", "u", "v", "w", "x", "y", "z">>
Digits == {"0", "1", "2", "3", "4", "5", "6", "7", "8", "9"}
Range(f) == {f[i] : i \in DOMAIN f}
\* the characters the regex class \w matches
WordChars == Range(UpperAlpha) \cup Range(LowerAlpha) \cup Digits \cup {"_"}
Whitespace == {" "}

LowerChar(c) ==
    IF c \in Range(UpperAlpha)
    THEN LowerAlpha[CHOOSE i \in DOMAIN UpperAlpha : UpperAlpha[i] = c]
    ELSE c

\* s.lower()
lower(s) == [i \in 1..Len(s) |-> LowerChar(s[i])]

RECURSIVE lstrip(_)
lstrip(s) == IF s # <<>> /\ Head(s) \in Whitespace THEN lstrip(Tail(s)) ELSE s

RECURSIVE rstrip(_)
rstrip(s) ==
    IF s # <<>> /\ s[Len(s)] \in Whitespace
    THEN rstrip(SubSeq(s, 1, Len(s) - 1))
    ELSE s

\* s.strip()
strip(s) == rstrip(lstrip(s))

\* pat in text
Contains(text, pat) ==
    \E i \in 0..(Len(text) - Len(pat)) : SubSeq(text, i + 1, i + Len(pat)) = pat

\* any(word in text for word in words)
ContainsAny(text, words) == \E w \in words : Contains(text, w)

\* list(dict.fromkeys(xs)): the first occurrence of every element, in order
RECURSIVE fromkeys(_)
fromkeys(xs) ==
    IF xs = <<>> THEN <<>>
    ELSE LET init == fromkeys(SubSeq(xs, 1, Len(xs) - 1))
             x == xs[Len(xs)]
         IN  IF x \in Range(init) THEN init ELSE Append(init, x)

\* the regex assertion \b before text[p] (p = Len(text) + 1: at the end)
IsWordAt(text, p) == p \in 1..Len(text) /\ text[p] \in WordChars
WordBoundary(text, p) == IsWordAt(text, p - 1) # IsWordAt(text, p)

\* re.search(rf"\b{k}\b", text) finds a match
SearchWord(text, k) ==
    \E i \in 0..(Len(text) - Len(k)) :
        /\ SubSeq(text, i + 1, i + Len(k)) = k
        /\ WordBoundary(text, i + 1)
        /\ WordBoundary(text, i + Len(k) + 1)

(***************************************************************************)
(* text_analysis.py                                                         *)
(***************************************************************************)
extract_hair_texture(text0) ==
    LET text == lower(text0)
    IN  IF Contains(text, chars("fine")) THEN chars("Fine")
        ELSE IF Contains(text, chars("medium")) THEN chars("Medium")
        ELSE IF Contains(text, chars("coarse")) THEN chars("Coarse")
        ELSE IF Contains(text, chars("thick")) THEN chars("Coarse")
        ELSE IF Contains(text, chars("thin")) THEN chars("Fine")
        ELSE IF Contains(text, chars("wavy")) THEN chars("Medium")
        ELSE None

\* the (trait words, keyword) pairs in the order the keywords are appended
TraitTable ==
    << <<{chars("greasy roots"), chars("oily roots"), chars("scalp is oily"), chars("oily scalp")}, chars("Greasy roots")>>,
       <<{chars("split ends"), chars("ends are damaged"), chars("split hair")}, chars("Prone to split ends")>>,
       <<{chars("brittle"), chars("breaks easily")}, chars("Brittle")>>,
       <<{chars("strawy"), chars("frizzy"), chars("rough")}, chars("Strawy")>>,
       <<{chars("dry"), chars("dryness")}, chars("Dry")>>,
       <<{chars("damaged"), chars("damage")}, chars("Damaged")>>,
       <<{chars("colored"), chars("color-treated"), chars("dyed")}, chars("Colored")>>,
       <<{chars("bleached"), chars("bleach")}, chars("Bleached")>>,
       <<{chars("normal hair")}, chars("Normal")>>,
       <<{chars("dry tips"), chars("dry ends")}, chars("Dry tips")>> >>

\* the "hair_type_keywords" of extract_hair_type_traits
extract_hair_type_traits(text0) ==
    LET text == lower(text0)
        hit(row) == ContainsAny(text, row[1])
        keywords(rows) == [i \in 1..Len(rows) |-> rows[i][2]]
    IN  keywords(SelectSeq(TraitTable, hit))

\* concern_map, in insertion order
concern_map ==
    << <<chars("dry"), chars("Dryness")>>, <<chars("damage"), chars("Damaged hair")>>, <<chars("breakage"), chars("Breakage")>>,
       <<chars("frizz"), chars("Frizzy hair")>>, <<chars("shine"), chars("Lack of shine")>>,
       <<chars("volume"), chars("Lack of volume")>>, <<chars("color"), chars("Color protection")>>,
       <<chars("bleach"), chars("Colored & Bleached")>>, <<chars("dandruff"), chars("Scalp care")>>,
       <<chars("hair fall"), chars("Hair fall")>>, <<chars("split"), chars("Split ends")>>,
       <<chars("smooth"), chars("Smoothness")>>, <<chars("repair"), chars("Repair")>>,
       <<chars("moisture"), chars("Moisturizing")>>, <<chars("hydration"), chars("Moisturizing")>>,
       <<chars("oily"), chars("Oily scalp")>>, <<chars("greasy"), chars("Oily scalp")>> >>

extract_concerns(text0) ==
    LET text == lower(text0)
        hit(row) == SearchWord(text, row[1])
        concerns(rows) == fromkeys([i \in 1..Len(rows) |-> rows[i][2]])
        result(found) ==
            [primary_concern |-> IF Len(found) > 0 THEN found[1] ELSE None,
             secondary_concern |-> IF Len(found) > 1 THEN found[2] ELSE None,
             all_detected |-> found]
    IN  result(concerns(SelectSeq(concern_map, hit)))

\* analyze_text_input, lines 120-128: the direct keyword capture, only when
\* no trait keyword was found
direct_keywords(text, kw0) ==
    IF kw0 # <<>> THEN kw0
    ELSE (IF ContainsAny(text, {chars("dry"), chars("dryness"), chars("frizzy"), chars("rough")})
          THEN <<chars("Dry")>> ELSE <<>>)
      \o (IF ContainsAny(text, {chars("damaged"), chars("breakage"), chars("broken")})
          THEN <<chars("Damaged")>> ELSE <<>>)
      \o (IF ContainsAny(text, {chars("colored"), chars("color-treated"), chars("dyed"),
                                chars("bleached")})
          THEN <<chars("Colored & Bleached")>> ELSE <<>>)

\* lines 130-137: the texture caught from descriptive words if missed
direct_texture(text, texture0) ==
    IF texture0 # None THEN texture0
    ELSE IF ContainsAny(text, {chars("fine"), chars("thin"), chars("delicate")})
         THEN chars("Fine")
    ELSE IF ContainsAny(text, {chars("medium"), chars("normal")}) THEN chars("Medium")
    ELSE IF ContainsAny(text, {chars("coarse"), chars("thick"), chars("dense"), chars("wavy"),
                               chars("curly")})
         THEN chars("Coarse")
    ELSE None

\* lines 139-155: the enrichment of keywords and concerns, and the result
enriched(text, texture, kw1, concerns) ==
    [hair_texture |-> texture,
     hair_type_keywords |->
         fromkeys(IF chars("Moisturizing") \in Range(concerns.all_detected)
                     /\ chars("Dry") \notin Range(kw1)
                  THEN Append(kw1, chars("Dry")) ELSE kw1),
     primary_concern |-> concerns.primary_concern,
     secondary_concern |-> concerns.secondary_concern,
     detected_concerns |->
         IF ContainsAny(text, {chars("color"), chars("bleach"), chars("dyed")})
            /\ chars("Color protection") \notin Range(concerns.all_detected)
         THEN Append(concerns.all_detected, chars("Color protection"))
         ELSE concerns.all_detected]

analyze_text_input(message) ==
    LET on(text) ==
            enriched(text,
                     direct_texture(text, extract_hair_texture(text)),
                     direct_keywords(text, extract_hair_type_traits(text)),
                     extract_concerns(text))
    IN  on(strip(lower(message)))

(***************************************************************************)
(* analysis.py: the keywords an image yields.  The pixel measurements are   *)
(* an input: an image is the set of traits its metrics put over their       *)
(* thresholds, or no hair at all.                                           *)
(***************************************************************************)
\* keyword_map, in insertion order
keyword_map ==
    << <<"dull", chars("Dull")>>, <<"dry", chars("Dry")>>,
       <<"colored_or_bleached", chars("Colored & Bleached")>>, <<"long", chars("Long hair")>>,
       <<"strawy", chars("Strawy")>>, <<"damaged", chars("Damaged")>> >>

\* an image: [hair |-> BOOLEAN, traits |-> the trait names inferred from it]
analyze_hair_features(image) ==
    IF ~image.hair THEN [error |-> "no hair detected"]
    ELSE LET hit(row) == row[1] \in image.traits
             rows == SelectSeq(keyword_map, hit)
         IN  [hair_type_keywords |-> [i \in 1..Len(rows) |-> rows[i][2]]]

analyze_user_input(image) == analyze_hair_features(image)

(***************************************************************************)
(* matcher.py                                                               *)
(***************************************************************************)
\* the length of the separator re.split finds at position i, 0 if none:
\* the alternatives of r"[,/]| and | or |;" are tried in order
SeparatorAt(s, i) ==
    IF s[i] \in {",", "/"} THEN 1
    ELSE IF i + 4 <= Len(s) /\ SubSeq(s, i, i + 4) = chars(" and ") THEN 5
    ELSE IF i + 3 <= Len(s) /\ SubSeq(s, i, i + 3) = chars(" or ") THEN 4
    ELSE IF s[i] = ";" THEN 1
    ELSE 0

RECURSIVE re_split(_)
re_split(s) ==
    LET at == {i \in 1..Len(s) : SeparatorAt(s, i) > 0}
    IN  IF at = {} THEN <<s>>
        ELSE LET i == CHOOSE j \in at : \A k \in at : j <= k
             IN  <<SubSeq(s, 1, i - 1)>>
                     \o re_split(SubSeq(s, i + SeparatorAt(s, i), Len(s)))

\* value: a string, None or NaN
tokenize(value) ==
    IF value = <<>> \/ value = None THEN <<>>
    ELSE re_split(lower(str(value)))

\* set(t.strip() for t in traits if t.strip())
TraitSet(traits) == {strip(traits[i]) : i \in DOMAIN traits} \ {<<>>}

\* the overlap as a share of the user's tokens instead of the union
compute_similarity_of_user(user_traits, dataset_traits) ==
    LET user_set == TraitSet(user_traits)
        data_set == TraitSet(dataset_traits)
    IN  IF user_set = {} THEN [num |-> 0, den |-> 1]
        ELSE [num |-> Cardinality(user_set \cap data_set), den |-> Cardinality(user_set)]

\* The Jaccard similarity as the fraction [num / den] the code divides out;
\* 0.0 is [num |-> 0, den |-> 1].
compute_similarity(user_traits, dataset_traits) ==
    IF user_traits = <<>> \/ dataset_traits = <<>> THEN [num |-> 0, den |-> 1]
    ELSE LET user_set == TraitSet(user_traits)
             data_set == TraitSet(dataset_traits)
             intersection == Cardinality(user_set \cap data_set)
             union == Cardinality(user_set \cup data_set)
         IN  IF union > 0 THEN [num |-> intersection, den |-> union]
             ELSE [num |-> 0, den |-> 1]

\* d.get(k, default)
Get(d, k, default) == IF k \in DOMAIN d THEN d[k] ELSE default

\* 1.0 if str(value).lower() in str(cell).lower() else 0.0
ContainsSim(value, cell) == IF Contains(lower(str(cell)), lower(str(value))) THEN 1 ELSE 0

\* round(x, 3) of x = thousandths_num / den thousandths, in thousandths
\* (no tie can occur while den < 32)
RoundDiv(n, d) == (2 * n + d) \div (2 * d)

\* "match_score" of one row, in thousandths
total_score(user_data, row) ==
    LET hair_type_sim == compute_similarity(Get(user_data, "hair_type", <<>>),
                                            tokenize(Get(row, "Hair Type", <<>>)))
        texture_sim == ContainsSim(Get(user_data, "hair_texture", <<>>),
                                   Get(row, "Hair Texture", <<>>))
        primary_sim == ContainsSim(Get(user_data, "primary_concern", <<>>),
                                   Get(row, "Primary Concern", <<>>))
        secondary_sim == ContainsSim(Get(user_data, "secondary_concern", <<>>),
                                     Get(row, "Secondary Concern", <<>>))
    IN  RoundDiv(400 * hair_type_sim.num
                   + hair_type_sim.den
                       * (200 * texture_sim + 250 * primary_sim + 150 * secondary_sim),
                 hair_type_sim.den)

\* NaN cells become None
to_serializable(value) == IF value = NaN THEN None ELSE value

\* {"match_score": ..., **clean_row}
ScoredRow(user_data, row) ==
    [k \in DOMAIN row \cup {"match_score"} |->
        IF k = "match_score" THEN total_score(user_data, row)
        ELSE to_serializable(row[k])]

Score(r) == r["match_score"]

\* a sort that puts a row before the rows of equal score
RECURSIVE sorted_desc_unstable(_)
sorted_desc_unstable(results) ==
    IF results = <<>> THEN <<>>
    ELSE LET init == sorted_desc_unstable(SubSeq(results, 1, Len(results) - 1))
             r == results[Len(results)]
             n == Cardinality({i \in 1..Len(init) : Score(init[i]) > Score(r)})
         IN  SubSeq(init, 1, n) \o <<r>> \o SubSeq(init, n + 1, Len(init))

\* sorted(results, key=match_score, reverse=True): stable, so rows of equal
\* score keep their order
RECURSIVE sorted_desc(_)
sorted_desc(results) ==
    IF results = <<>> THEN <<>>
    ELSE LET init == sorted_desc(SubSeq(results, 1, Len(results) - 1))
             r == results[Len(results)]
             \* r goes behind every row whose score is at least its own
             n == Cardinality({i \in 1..Len(init) : Score(init[i]) >= Score(r)})
         IN  SubSeq(init, 1, n) \o <<r>> \o SubSeq(init, n + 1, Len(init))

top_n == 3

match_user_profile_on(df, user_data) ==
    LET results == [i \in 1..Len(df) |-> ScoredRow(user_data, df[i])]
        ranked == sorted_desc(results)
        top == SubSeq(ranked, 1, IF Len(ranked) < top_n THEN Len(ranked) ELSE top_n)
        positive(r) == Score(r) > 0
    IN  SelectSeq(top, positive)

(***************************************************************************)
(* chatbot_response.py: the part of a turn that reads no shared state.      *)
(***************************************************************************)
SESSION_TIMEOUT == 600

\* None where a list is expected (combined_hair_type or None)
NoneList == <<None>>
\* image_bytes = None
NoImage == [hair |-> FALSE, traits |-> {"#None"}]

ListKeys == {"hair_type"}
ProfileKeys == <<"hair_type", "hair_texture", "primary_concern", "secondary_concern">>
required_fields == <<"hair_type", "hair_texture", "primary_concern">>

\* sanitize of a cell value: pandas NA becomes None
sanitize_value(v) == IF v = NaN THEN None ELSE v

\* sanitize(user_profile): a copy of the dict, every key kept
sanitize(d) ==
    [k \in DOMAIN d |->
        IF k \in ListKeys THEN [i \in DOMAIN d[k] |-> sanitize_value(d[k][i])]
        ELSE IF k \in {"_last_activity", "_last_asked"} THEN d[k]
        ELSE sanitize_value(d[k])]

\* sanitize(matches)
sanitize_rows(rows) ==
    [i \in DOMAIN rows |->
        [k \in DOMAIN rows[i] |->
            IF k = "match_score" THEN rows[i][k] ELSE sanitize_value(rows[i][k])]]

\* the keywords the image and the text analysis report, image first
reported_keywords(text_result, image) ==
    LET kws(image_result) ==
            IF image # NoImage /\ "hair_type_keywords" \in DOMAIN image_result
            THEN image_result.hair_type_keywords ELSE <<>>
    IN  kws(analyze_user_input(image)) \o text_result.hair_type_keywords

\* lines 121-134 without the dict.fromkeys of line 134
extractor_hair_type_repeating(text_result, image) ==
    LET tokens(kws) == [i \in DOMAIN kws |-> lower(kws[i])]
    IN  tokens(reported_keywords(text_result, image))

\* lines 121-134: the lower-cased keywords of image and text, first occurrences
extractor_hair_type(text_result, image) ==
    LET tokens(kws) == [i \in DOMAIN kws |-> lower(kws[i])]
    IN  fromkeys(tokens(reported_keywords(text_result, image)))

\* lines 146-152: the substring scan of the raw message
fallback_hair_type(text_lower) ==
    (IF Contains(text_lower, chars("dry")) THEN <<chars("dry")>> ELSE <<>>)
      \o (IF Contains(text_lower, chars("damage")) \/ Contains(text_lower, chars("damaged"))
          THEN <<chars("damaged")>> ELSE <<>>)
      \o (IF Contains(text_lower, chars("color")) \/ Contains(text_lower, chars("bleach"))
          THEN <<chars("colored & bleached")>> ELSE <<>>)

combined_hair_type(text_result, image, text_lower) ==
    LET or_fallback(combined) ==
            IF combined = <<>> THEN fallback_hair_type(text_lower) ELSE combined
    IN  or_fallback(extractor_hair_type(text_result, image))

\* text_result.get("is_clarification") alone
is_clarification_reply_flagged(text_result, text_lower) ==
    "is_clarification" \in DOMAIN text_result /\ text_result["is_clarification"]

\* text_result.get("is_clarification") or any(k in text_lower for k in [...])
is_clarification_reply(text_result, text_lower) ==
    \/ ("is_clarification" \in DOMAIN text_result /\ text_result["is_clarification"])
    \/ ContainsAny(text_lower, {chars("hydration"), chars("repair"), chars("nourishment")})

\* concern_synonyms, in insertion order
concern_synonyms ==
    << <<chars("hydration"), chars("Dryness")>>, <<chars("moisture"), chars("Dryness")>>,
       <<chars("moisturizing"), chars("Dryness")>>, <<chars("repair"), chars("Damage")>>,
       <<chars("regeneration"), chars("Damage")>>, <<chars("shine"), chars("Dullness")>>,
       <<chars("smooth"), chars("Frizz Control")>>, <<chars("color protection"), chars("Color Care")>>,
       <<chars("nourishment"), chars("Nutrition")>> >>

\* line 167 alone: the concern the text analysis extracted
normalized_concern_extracted(text_result, text_lower) == text_result.primary_concern

\* lines 167-181
normalized_concern(text_result, text_lower) ==
    LET hit(row) == Contains(text_lower, row[1])
        first(hits) == IF hits # <<>> THEN hits[1][2] ELSE text_result.primary_concern
        synonym == first(SelectSeq(concern_synonyms, hit))
    IN  IF is_clarification_reply(text_result, text_lower)
        THEN IF Contains(text_lower, chars("hydration")) \/ Contains(text_lower, chars("moisturizing"))
             THEN chars("Dryness")
             ELSE IF Contains(text_lower, chars("repair")) THEN chars("Damage")
             ELSE IF Contains(text_lower, chars("nourishment")) \/ Contains(text_lower, chars("nutrition"))
                  THEN chars("Nutrition")
             ELSE synonym
        ELSE synonym

\* x or None, for a list x
OrNone(xs) == IF xs = <<>> THEN NoneList ELSE xs

\* lines 118-191: the dict handed to update_session
new_data_of(message, image) ==
    LET new_data(text_result, text_lower) ==
            [hair_type |-> OrNone(combined_hair_type(text_result, image, text_lower)),
             hair_texture |-> text_result.hair_texture,
             primary_concern |-> normalized_concern(text_result, text_lower),
             secondary_concern |-> text_result.secondary_concern]
    IN  new_data(analyze_text_input(message), lower(message))

\* None as the value of key k
NoneOf(k) == IF k \in ListKeys THEN NoneList ELSE None

\* line 73 without its test
is_stored_always(k, v) == TRUE

\* line 73 without its test for None
is_stored_even_none(k, v) == v # <<>>

\* update_session, line 73: v is not None and v != [] and v != ""
is_stored(k, v) == v # NoneOf(k) /\ v # <<>>

\* bool(d.get(f)) for a profile field: absent, None, "" and [] are falsy
Truthy(d, f) == f \in DOMAIN d /\ d[f] # NoneOf(f) /\ d[f] # <<>>

(***************************************************************************)
(* evaluate_matches.  A message is its fixed text and the product names     *)
(* formatted into it; top_products comes from a Python set, whose order is  *)
(* arbitrary, so the product list is kept as a set.                         *)
(***************************************************************************)
Message(text, products) == [text |-> text, products |-> products]

MSG_TROUBLE == "Hmm, I'm having a bit of trouble finding the perfect match for you right now."
MSG_NO_PRODUCT == "Oops! I couldn't find any products that match your needs."
MSG_RECOMMEND == "Perfect! I've found just the right solution for you. I recommend the **{product}** range"
MSG_CLARIFY == "Great news! I found some fantastic matches for you: {products}. ... which goal is most important to you"
MSG_REPROMPT == "I'd love to help you find the perfect hair care solution! Could you tell me a bit more about your hair"
MSG_NO_MATCH == "I'm having a bit of trouble finding the perfect match for you. Could you tell me more about your hair goals"
MSG_LOW_CONFIDENCE == "I want to make sure I give you the perfect recommendation! Could you tell me more about your hair goals?"
PROMPT_HAIR_TYPE == "What's your hair type like? (e.g., dry, damaged, or colored)"
PROMPT_HAIR_TEXTURE == "How would you describe your hair texture - fine, medium, or coarse?"
PROMPT_PRIMARY_CONCERN == "What's your main hair concern - frizz, dryness, or repair?"

\* m.get("Product") is truthy
HasProduct(m) == "Product" \in DOMAIN m /\ m["Product"] # None /\ m["Product"] # <<>>

\* evaluate_matches recommending the best row alone instead of the rows of
\* line 92
evaluate_matches_best_row(matches) ==
    IF matches = <<>> THEN [message |-> Message(<<MSG_TROUBLE>>, {})]
    ELSE LET top_products == {matches[i]["Product"] :
                                 i \in {j \in DOMAIN matches : HasProduct(matches[j])}}
         IN  IF top_products = {} THEN [message |-> Message(<<MSG_NO_PRODUCT>>, {})]
             ELSE IF Cardinality(top_products) = 1
             THEN [message |-> Message(<<MSG_RECOMMEND>>, top_products),
                   combined_recommendations |-> sanitize_rows(<<matches[1]>>),
                   final_recommendation |-> TRUE]
             ELSE [message |-> Message(<<MSG_CLARIFY>>, top_products),
                   need_clarification |-> TRUE,
                   options |-> top_products]

evaluate_matches(matches) ==
    IF matches = <<>> THEN [message |-> Message(<<MSG_TROUBLE>>, {})]
    ELSE LET top_products == {matches[i]["Product"] :
                                 i \in {j \in DOMAIN matches : HasProduct(matches[j])}}
         IN  IF top_products = {} THEN [message |-> Message(<<MSG_NO_PRODUCT>>, {})]
             ELSE IF Cardinality(top_products) = 1
             THEN LET product == CHOOSE p \in top_products : TRUE
                      same(m) == HasProduct(m) /\ m["Product"] = product
                  IN  [message |-> Message(<<MSG_RECOMMEND>>, {product}),
                       combined_recommendations |-> sanitize_rows(SelectSeq(matches, same)),
                       final_recommendation |-> TRUE]
             ELSE [message |-> Message(<<MSG_CLARIFY>>, top_products),
                   need_clarification |-> TRUE,
                   options |-> top_products]

(***************************************************************************)
(* The catalog (Hackathon_dataset.xlsx, read once by load_dataset) and the  *)
(* inputs of a turn.                                                        *)
(***************************************************************************)
AquaShampoo ==
    [Product |-> chars("Aqua Revive"), Step |-> chars("Shampoo")] @@
    ("Hair Type" :> chars("Dry, Strawy")) @@ ("Hair Texture" :> chars("Fine")) @@
    ("Primary Concern" :> chars("Dryness")) @@ ("Secondary Concern" :> NaN)
AquaConditioner == [AquaShampoo EXCEPT !["Step"] = chars("Conditioner")]
TotalRepair ==
    [Product |-> chars("Total Repair"), Step |-> chars("Shampoo")] @@
    ("Hair Type" :> chars("Damaged, Dry")) @@ ("Hair Texture" :> chars("Medium")) @@
    ("Primary Concern" :> chars("Damage")) @@ ("Secondary Concern" :> chars("Split ends"))
OilNutritive ==
    [Product |-> chars("Oil Nutritive"), Step |-> chars("Shampoo")] @@
    ("Hair Type" :> chars("Long hair / Prone to split ends")) @@ ("Hair Texture" :> chars("Coarse")) @@
    ("Primary Concern" :> chars("Nutrition")) @@ ("Secondary Concern" :> chars("Dryness"))
\* a range whose concern is Damage under another Product name
UltimateRepair == [TotalRepair EXCEPT !["Product"] = chars("Ultimate Repair")]
\* a row whose Product cell is empty
Unnamed == [AquaShampoo EXCEPT !["Product"] = NaN]
\* the entry of the scoring example: no "Secondary Concern" column
ExampleEntry ==
    [Product |-> chars("Aqua Revive")] @@
    ("Hair Type" :> chars("Dry, Strawy")) @@ ("Hair Texture" :> chars("Fine")) @@
    ("Primary Concern" :> chars("Dryness"))

CatalogExample == <<ExampleEntry>>
CatalogRange == <<TotalRepair, AquaShampoo, OilNutritive, AquaConditioner>>
CatalogUnnamed == <<Unnamed>>
CatalogOil == <<OilNutritive>>
CatalogAqua == <<AquaShampoo, AquaConditioner>>
CatalogRepair == <<AquaShampoo, UltimateRepair>>
Catalogs ==
    {CatalogExample, CatalogRange, CatalogUnnamed, CatalogOil, CatalogAqua, CatalogRepair}
\* the catalogs the dialogue is explored with
LoadedCatalogs == {CatalogRange, CatalogUnnamed}
\* the catalogs the replies of the match stage are explored with
ReplyCatalogs == {CatalogRange, CatalogOil, CatalogAqua, CatalogRepair}

m_empty == <<>>
ImageDry == [hair |-> TRUE, traits |-> {"dry"}]
ImageColored == [hair |-> TRUE, traits |-> {"colored_or_bleached"}]

\* the (message, image) pairs of the turns explored
TurnInputs ==
    {<<m_empty, NoImage>>, <<chars("damaged"), NoImage>>, <<chars("fine"), NoImage>>,
     <<m_Dry_FINE, NoImage>>, <<m_Dry_FINE, ImageDry>>, <<chars("hydration"), NoImage>>,
     <<chars("color"), NoImage>>, <<m_empty, ImageColored>>, <<chars("dry"), NoImage>>}

\* the inputs of the turns explored with the clock advancing, and of the
\* turns explored with interleaved steps
StoreInputs == {<<m_empty, NoImage>>, <<chars("fine"), NoImage>>, <<chars("damaged"), NoImage>>}
ConcInputs == {<<chars("fine"), NoImage>>, <<chars("dry"), NoImage>>}
\* the inputs of the turns explored up to the reply of the match stage
ReplyInputs ==
    {<<m_Dry_FINE, NoImage>>, <<chars("dry fine shine"), NoImage>>, <<chars("repair"), NoImage>>,
     <<chars("hydration"), NoImage>>, <<chars("nourishment"), NoImage>>,
     <<chars("nourishment shine"), NoImage>>}
Inputs == TurnInputs \cup ReplyInputs

\* the analysis of every input, computed once
NewData == [in \in Inputs |-> new_data_of(in[1], in[2])]
Clarification ==
    [in \in Inputs |-> is_clarification_reply(analyze_text_input(in[1]), lower(in[1]))]

\* The profiles the explored inputs can build up, each field absent (<<>>)
\* or a value some input supplies, and the matches of each, computed once.
FieldValues(new_data, k) ==
    {new_data[in][k] : in \in {x \in DOMAIN new_data : Truthy(new_data[x], k)}}
CoreOf(ht, tx, pc, sc) ==
    LET v == [hair_type |-> ht, hair_texture |-> tx, primary_concern |-> pc,
              secondary_concern |-> sc]
    IN  [k \in {x \in Range(ProfileKeys) : v[x] # <<>>} |-> v[k]]
CoresOf(new_data) ==
    {CoreOf(ht, tx, pc, sc) :
        ht \in FieldValues(new_data, "hair_type") \cup {<<>>},
        tx \in FieldValues(new_data, "hair_texture") \cup {<<>>},
        pc \in FieldValues(new_data, "primary_concern") \cup {<<>>},
        sc \in FieldValues(new_data, "secondary_concern") \cup {<<>>}}
Cores == CoresOf(NewData)
Core(user_data) == [k \in DOMAIN user_data \cap Range(ProfileKeys) |-> user_data[k]]
MatchesOf == [df \in Catalogs |-> [p \in Cores |-> match_user_profile_on(df, p)]]

\* match_user_profile(user_data), for the loaded catalog df
match_user_profile(df, user_data) ==
    LET lookup(memo, core) ==
            IF df \in DOMAIN memo /\ core \in DOMAIN memo[df]
            THEN memo[df][core]
            ELSE match_user_profile_on(df, user_data)
    IN  lookup(MatchesOf, Core(user_data))

(***************************************************************************)
(* Session store.  SESSION_MEMORY maps a session id to a dict object; the   *)
(* objects live in a heap, because update_session and the caller keep       *)
(* references to a session's dict and write through them.  A world is       *)
(* [mem, heap, nextId]: SESSION_MEMORY, the dict objects, and the source of *)
(* fresh uuid4 values and object identities.                                *)
(***************************************************************************)
\* session_id = None
NoSession == 0

\* d[k] = v
Put(d, k, v) == [x \in DOMAIN d \cup {k} |-> IF x = k THEN v ELSE d[x]]

\* d1.update(d2)
Update(d1, d2) ==
    [k \in DOMAIN d1 \cup DOMAIN d2 |-> IF k \in DOMAIN d2 THEN d2[k] ELSE d1[k]]

EmptyDict == <<>>

\* _is_session_expired without the comparison of line 49
is_session_expired_never(w, clock, session_id) ==
    IF session_id \notin DOMAIN w.mem THEN TRUE
    ELSE DOMAIN w.heap[w.mem[session_id]] = {}

\* _is_session_expired with >= for the > of line 49
is_session_expired_at_timeout(w, clock, session_id) ==
    IF session_id \notin DOMAIN w.mem THEN TRUE
    ELSE LET session_data == w.heap[w.mem[session_id]]
         IN  IF DOMAIN session_data = {} THEN TRUE
             ELSE clock - Get(session_data, "_last_activity", 0) >= SESSION_TIMEOUT

is_session_expired(w, clock, session_id) ==
    IF session_id \notin DOMAIN w.mem THEN TRUE
    ELSE LET session_data == w.heap[w.mem[session_id]]
         IN  IF DOMAIN session_data = {} THEN TRUE
             ELSE clock - Get(session_data, "_last_activity", 0) > SESSION_TIMEOUT

\* SESSION_MEMORY[generate_session_id()] = dict
create_session(w, dict) ==
    [mem |-> Put(w.mem, w.nextId, w.nextId),
     heap |-> Put(w.heap, w.nextId, dict),
     nextId |-> w.nextId + 1]

\* the object behind a reference, changed at one key
PutField(w, ref, k, v) == [w EXCEPT !.heap[ref] = Put(@, k, v)]

(***************************************************************************)
(* generate_chatbot_response as a sequence of steps of one thread.  l is    *)
(* the thread's frame: its program counter, arguments and local variables.  *)
(* Every step is a function of the world, the frame and the clock, and      *)
(* yields the new world and frame.                                          *)
(***************************************************************************)
IdleFrame ==
    [pc |-> "idle", session_arg |-> NoSession, message |-> <<>>, image |-> NoImage,
     session_id |-> NoSession, new_data |-> EmptyDict, upd_session_id |-> NoSession,
     existing |-> NoSession, i |-> 0, missing |-> <<>>, result |-> EmptyDict,
     \* history, not program state: the number of the turn; whether no other
     \* turn was in flight when it was called; whether the presented id was
     \* stored with a last activity more than the timeout ago when it was
     \* resolved; the next unissued id then; the dict as line 71 found it
     \* and the last activity of the presented id when it was resolved (0 when
     \* it was not stored)
     h_turn |-> 0, h_alone |-> TRUE, h_stale |-> FALSE, h_issued |-> 0,
     h_before |-> EmptyDict, h_last |-> 0]

\* the call: lines 107-111, and the analysis of lines 115-182, which reads
\* nothing shared
call_frame(session_arg, message, image) ==
    [IdleFrame EXCEPT !.pc = "resolve", !.session_arg = session_arg,
                      !.message = message, !.image = image,
                      !.new_data = NewData[<<message, image>>]]

\* get_or_create_session, lines 56-60
step_resolve(w, l, clock) ==
    IF l.session_arg = NoSession \/ is_session_expired(w, clock, l.session_arg)
    THEN [w |-> create_session(w, Put(EmptyDict, "_last_activity", clock)),
          l |-> [l EXCEPT !.pc = "upd_check", !.session_id = w.nextId]]
    ELSE [w |-> w, l |-> [l EXCEPT !.pc = "refresh"]]

\* _refresh_session_timestamp and the return, lines 61-62
step_refresh(w, l, clock) ==
    [w |-> IF l.session_arg \in DOMAIN w.mem
           THEN PutField(w, w.mem[l.session_arg], "_last_activity", clock)
           ELSE w,
     l |-> [l EXCEPT !.pc = "upd_check", !.session_id = l.session_arg]]

\* update_session, lines 66-69
step_upd_check(w, l, clock) ==
    IF is_session_expired(w, clock, l.session_id)
    THEN [w |-> create_session(w, EmptyDict),
          l |-> [l EXCEPT !.pc = "upd_get", !.upd_session_id = w.nextId]]
    ELSE [w |-> w, l |-> [l EXCEPT !.pc = "upd_get", !.upd_session_id = l.session_id]]

\* The loop of lines 72-74 changes the dict only in the passes whose value
\* passes the test of line 73; the other passes read the thread's own
\* new_data alone, so they are folded into the neighbouring step.
\* The first index >= i of such a pass, or 0.
next_write(new_data, i) ==
    LET js == {j \in i..Len(ProfileKeys) : is_stored(ProfileKeys[j], new_data[ProfileKeys[j]])}
    IN  IF js = {} THEN 0 ELSE CHOOSE j \in js : \A k \in js : j <= k

\* the frame entering the loop at its pass i, or leaving it
loop_at(l, i) ==
    LET j == next_write(l.new_data, i)
    IN  IF j = 0 THEN [l EXCEPT !.pc = "upd_ts"] ELSE [l EXCEPT !.pc = "upd_write", !.i = j]

\* line 71 taking a copy of the stored dict instead of a reference to it
step_upd_get_copy(w, l, clock) ==
    IF l.upd_session_id \in DOMAIN w.mem
    THEN [w |-> [w EXCEPT !.heap = Put(@, w.nextId, w.heap[w.mem[l.upd_session_id]]),
                          !.nextId = @ + 1],
          l |-> loop_at([l EXCEPT !.existing = w.nextId,
                                  !.h_before = w.heap[w.mem[l.upd_session_id]]], 1)]
    ELSE [w |-> [w EXCEPT !.heap = Put(@, w.nextId, EmptyDict), !.nextId = @ + 1],
          l |-> loop_at([l EXCEPT !.existing = w.nextId], 1)]

\* update_session, line 71: a reference to the stored dict, or to a new {}
step_upd_get(w, l, clock) ==
    IF l.upd_session_id \in DOMAIN w.mem
    THEN [w |-> w,
          l |-> loop_at([l EXCEPT !.existing = w.mem[l.upd_session_id],
                                  !.h_before = w.heap[w.mem[l.upd_session_id]]], 1)]
    ELSE [w |-> [w EXCEPT !.heap = Put(@, w.nextId, EmptyDict), !.nextId = @ + 1],
          l |-> loop_at([l EXCEPT !.existing = w.nextId], 1)]

\* update_session, line 74: existing[k] = v
step_upd_write(w, l, clock) ==
    LET k == ProfileKeys[l.i]
    IN  [w |-> PutField(w, l.existing, k, l.new_data[k]),
         l |-> loop_at(l, l.i + 1)]

\* line 76 stamping every dict of the store instead of existing alone
step_upd_ts_every(w, l, clock) ==
    [w |-> [w EXCEPT !.heap = [o \in DOMAIN w.heap |->
                                  Put(w.heap[o], "_last_activity", clock)]],
     l |-> [l EXCEPT !.pc = "upd_store"]]

\* update_session, line 76
step_upd_ts(w, l, clock) ==
    [w |-> PutField(w, l.existing, "_last_activity", clock),
     l |-> [l EXCEPT !.pc = "upd_store"]]

\* update_session, lines 77-78
step_upd_store(w, l, clock) ==
    [w |-> [w EXCEPT !.mem = Put(@, l.upd_session_id, l.existing)],
     l |-> [l EXCEPT !.pc = "gate"]]

\* [f for f in required_fields if not user_profile.get(f)]
missing_fields(user_profile) ==
    LET absent(f) == ~Truthy(user_profile, f)
    IN  SelectSeq(required_fields, absent)

\* lines 210-216 with the question about the texture asked first
prompts_for_texture_first(missing) ==
    (IF "hair_texture" \in Range(missing) THEN <<PROMPT_HAIR_TEXTURE>> ELSE <<>>)
      \o (IF "hair_type" \in Range(missing) THEN <<PROMPT_HAIR_TYPE>> ELSE <<>>)
      \o (IF "primary_concern" \in Range(missing) THEN <<PROMPT_PRIMARY_CONCERN>> ELSE <<>>)

\* lines 210-216
prompts_for(missing) ==
    (IF "hair_type" \in Range(missing) THEN <<PROMPT_HAIR_TYPE>> ELSE <<>>)
      \o (IF "hair_texture" \in Range(missing) THEN <<PROMPT_HAIR_TEXTURE>> ELSE <<>>)
      \o (IF "primary_concern" \in Range(missing) THEN <<PROMPT_PRIMARY_CONCERN>> ELSE <<>>)

\* the keys every return statement of generate_chatbot_response adds
Returned(fields, user_profile, session_id) ==
    Update(fields, [user_profile |-> sanitize(user_profile), session_id |-> session_id])

\* lines 195-223: the completeness gate
step_gate(w, l, clock) ==
    LET asked(w2, missing) ==
            [w |-> w2,
             l |-> [l EXCEPT !.pc = "idle", !.missing = missing,
                             !.result = Returned([message |-> Message(prompts_for(missing), {}),
                                                  need_more_info |-> TRUE],
                                                 w2.heap[l.existing], l.session_id)]]
        gate(user_profile, missing) ==
            IF missing = <<>> THEN [w |-> w, l |-> [l EXCEPT !.pc = "match"]]
            ELSE IF "_last_asked" \in DOMAIN user_profile
                    /\ user_profile["_last_asked"] = missing
            THEN [w |-> w,
                  l |-> [l EXCEPT !.pc = "idle", !.missing = missing,
                                  !.result = Returned([message |-> Message(<<MSG_REPROMPT>>, {}),
                                                       need_more_info |-> TRUE],
                                                      user_profile, l.session_id)]]
            ELSE asked(PutField(w, l.existing, "_last_asked", missing), missing)
    IN  gate(w.heap[l.existing], missing_fields(w.heap[l.existing]))

\* lines 262-277: the matches a clarification reply prefers
clarification_filter(text_lower, matches) ==
    LET aqua(m) == HasProduct(m) /\ m["Product"] = chars("Aqua Revive")
        repair(m) == HasProduct(m) /\ m["Product"] = chars("Total Repair")
        nutrition(m) == \/ Contains(str(Get(m, "Primary Concern", <<>>)), chars("Nutrition"))
                        \/ Contains(str(Get(m, "Secondary Concern", <<>>)), chars("Nutrition"))
        or_all(filtered) == IF filtered # <<>> THEN filtered ELSE matches
    IN  or_all(IF Contains(text_lower, chars("hydration"))
                  \/ Contains(text_lower, chars("moisturizing"))
               THEN SelectSeq(matches, aqua)
               ELSE IF Contains(text_lower, chars("repair")) THEN SelectSeq(matches, repair)
               ELSE IF Contains(text_lower, chars("nourishment"))
                       \/ Contains(text_lower, chars("nutrition"))
                    THEN SelectSeq(matches, nutrition)
               ELSE matches)

\* lines 225-292 without the test of lines 228-234
step_match_on_unguarded(df, w, l, clock) ==
    LET evaluated(matches) ==
            Update(evaluate_matches(matches), [matches |-> sanitize_rows(matches)])
        returned(user_profile) ==
            Returned(evaluated(match_user_profile(df, user_profile)),
                     user_profile, l.session_id)
    IN  [w |-> w,
         l |-> [l EXCEPT !.pc = "idle", !.result = returned(w.heap[l.existing])]]

\* lines 225-292, for the catalog df
step_match_on(df, w, l, clock) ==
    LET clarified(filtered) ==
            Update(evaluate_matches(filtered),
                   [need_clarification |-> FALSE, final_recommendation |-> TRUE,
                    matches |-> sanitize_rows(filtered)])
        fields(user_profile, matches) ==
            IF matches = <<>>
            THEN [message |-> Message(<<MSG_NO_MATCH>>, {}), need_more_info |-> TRUE]
            ELSE IF Score(matches[1]) < 600 /\ ~Truthy(user_profile, "primary_concern")
            THEN [message |-> Message(<<MSG_LOW_CONFIDENCE>>, {}), need_more_info |-> TRUE,
                  matches |-> sanitize_rows(matches)]
            ELSE IF Clarification[<<l.message, l.image>>]
            THEN clarified(clarification_filter(lower(l.message), matches))
            ELSE Update(evaluate_matches(matches), [matches |-> sanitize_rows(matches)])
        returned(user_profile) ==
            Returned(fields(user_profile, match_user_profile(df, user_profile)),
                     user_profile, l.session_id)
    IN  [w |-> w,
         l |-> [l EXCEPT !.pc = "idle", !.result = returned(w.heap[l.existing])]]

Threads == {1, 2}

MaxTurns == 3
MaxStoreTurns == 3
MaxTicks == 1
MaxConcTurns == 3
MaxReplyTurns == 2
MaxRaceTurns == 2
MaxRaceTicks == 1
MaxPairTurns == 2
MaxPairTicks == 1

(***************************************************************************)
(* State.                                                                   *)
(***************************************************************************)
VARIABLES
    catalog,    \* _DATASET
    now,        \* time.time()
    mem,        \* SESSION_MEMORY: session id -> reference to a dict
    heap,       \* the dict objects
    nextId,     \* the next fresh uuid / object identity
    th,         \* the frame of each thread serving turns
    turns,      \* turns started
    ticks,      \* clock advances
    dead,       \* history: the sessions found expired, as they were found
    hist,       \* history: per session, the last two turns' missing and message
    arg,        \* the arguments of a direct call of the matcher's functions
    ret         \* what the call returned

vars == <<catalog, now, mem, heap, nextId, th, turns, ticks, dead, hist, arg, ret>>

World == [mem |-> mem, heap |-> heap, nextId |-> nextId]

\* no direct call of the matcher
NoCall ==
    [op |-> "none", df |-> <<>>, user_data |-> EmptyDict,
     user_traits |-> <<>>, dataset_traits |-> <<>>]
NoReturn == [matched |-> FALSE, top_matches |-> <<>>,
             compared |-> FALSE, similarity |-> [num |-> 0, den |-> 1],
             swapped |-> [num |-> 0, den |-> 1]]

Init ==
    /\ catalog \in LoadedCatalogs
    /\ now = SESSION_TIMEOUT + 1
    /\ mem = EmptyDict
    /\ heap = EmptyDict
    /\ nextId = 1
    /\ th = [t \in Threads |-> IdleFrame]
    /\ turns = 0
    /\ ticks = 0
    /\ dead = EmptyDict
    /\ hist = EmptyDict
    /\ arg = NoCall
    /\ ret = NoReturn

\* one step of a thread, by its program counter
step_on(df, w, l, clock) ==
    CASE l.pc = "resolve" -> step_resolve(w, l, clock)
      [] l.pc = "refresh" -> step_refresh(w, l, clock)
      [] l.pc = "upd_check" -> step_upd_check(w, l, clock)
      [] l.pc = "upd_get" -> step_upd_get(w, l, clock)
      [] l.pc = "upd_write" -> step_upd_write(w, l, clock)
      [] l.pc = "upd_ts" -> step_upd_ts(w, l, clock)
      [] l.pc = "upd_store" -> step_upd_store(w, l, clock)
      [] l.pc = "gate" -> step_gate(w, l, clock)
      [] l.pc = "match" -> step_match_on(df, w, l, clock)

\* generate_chatbot_response run from call to return with nothing interleaved
RECURSIVE run_on(_, _, _, _)
run_on(df, w, l, clock) ==
    IF l.pc = "idle" THEN [w |-> w, l |-> l]
    ELSE LET then(s) == run_on(df, s.w, s.l, clock)
         IN  then(step_on(df, w, l, clock))

(***************************************************************************)
(* History.  None of it is read by a step.                                  *)
(***************************************************************************)
\* session_arg is stored and its last activity is more than the timeout ago
Stale(w, clock, session_arg) ==
    /\ session_arg \in DOMAIN w.mem
    /\ "_last_activity" \in DOMAIN w.heap[w.mem[session_arg]]
    /\ clock - w.heap[w.mem[session_arg]]["_last_activity"] > SESSION_TIMEOUT

\* the last activity stored for session_arg, 0 when there is none
LastActivity(w, session_arg) ==
    IF session_arg \in DOMAIN w.mem
    THEN Get(w.heap[w.mem[session_arg]], "_last_activity", 0)
    ELSE 0

\* the frame about to resolve its session, with what it meets noted
Observed(w, l, clock) ==
    IF l.pc = "resolve"
    THEN [l EXCEPT !.h_stale = Stale(w, clock, l.session_arg), !.h_issued = w.nextId,
                   !.h_last = LastActivity(w, l.session_arg)]
    ELSE l

\* the sessions met stale, as they were met
DeadAfter(w, l) ==
    IF l.pc = "resolve" /\ l.h_stale /\ l.session_arg \notin DOMAIN dead
    THEN Put(dead, l.session_arg, w.heap[w.mem[l.session_arg]])
    ELSE dead

\* per returned session id, the last two completed turns: what was missing,
\* the message, the input, and the hair_type stored when the turn returned
HistAfter(h, w2, l2) ==
    IF l2.pc # "idle" THEN h
    ELSE LET s == l2.result.session_id
             e == [missing |-> l2.missing, message |-> l2.result.message,
                   input |-> <<l2.message, l2.image>>,
                   hair_type |-> Get(w2.heap[l2.existing], "hair_type", <<>>)]
             old == IF s \in DOMAIN h THEN h[s] ELSE <<>>
         IN  Put(h, s, IF old = <<>> THEN <<e>> ELSE <<old[Len(old)], e>>)

\* the session ids a client can present: none, or any id issued so far
Presentable == NoSession..(nextId - 1)

\* the effect on the state of a thread's step, or whole turn, from frame l
\* to r = [w, l]
Becomes(t, l, r) ==
    /\ mem' = r.w.mem
    /\ heap' = r.w.heap
    /\ nextId' = r.w.nextId
    /\ th' = [th EXCEPT ![t] = r.l]
    /\ hist' = HistAfter(hist, r.w, r.l)
    /\ dead' = DeadAfter(World, l)

\* a turn served alone, from call to return
Turn(t, session_arg, message, image) ==
    /\ \A u \in Threads : th[u].pc = "idle"
    /\ LET served(l) == Becomes(t, l, run_on(catalog, World, l, now))
       IN  served(Observed(World,
                           [call_frame(session_arg, message, image) EXCEPT
                               !.h_turn = turns + 1],
                           now))
    /\ turns' = turns + 1
    /\ UNCHANGED <<catalog, now, ticks, arg, ret>>

\* a thread is handed a request while other turns may be in flight
Call(t, session_arg, message, image) ==
    /\ th[t].pc = "idle"
    /\ th' = [th EXCEPT ![t] =
                 [call_frame(session_arg, message, image) EXCEPT
                     !.h_turn = turns + 1,
                     !.h_alone = \A u \in Threads : th[u].pc = "idle"]]
    /\ turns' = turns + 1
    /\ UNCHANGED <<catalog, now, mem, heap, nextId, ticks, dead, hist, arg, ret>>

\* the thread's frame as it takes its next step
Frame(t) == Observed(World, th[t], now)

\* the thread takes a step whose outcome is r = [w, l]
Step(t, r) ==
    /\ Becomes(t, Frame(t), r)
    /\ UNCHANGED <<catalog, now, turns, ticks, arg, ret>>

\* the steps, each enabled by the thread's program counter
Resolve(t) ==
    /\ th[t].pc = "resolve"
    /\ Step(t, step_resolve(World, Frame(t), now))
Refresh(t) ==
    /\ th[t].pc = "refresh"
    /\ Step(t, step_refresh(World, Frame(t), now))
UpdCheck(t) ==
    /\ th[t].pc = "upd_check"
    /\ Step(t, step_upd_check(World, Frame(t), now))
UpdGet(t) ==
    /\ th[t].pc = "upd_get"
    /\ Step(t, step_upd_get(World, Frame(t), now))
UpdWrite(t) ==
    /\ th[t].pc = "upd_write"
    /\ Step(t, step_upd_write(World, Frame(t), now))
UpdTimestamp(t) ==
    /\ th[t].pc = "upd_ts"
    /\ Step(t, step_upd_ts(World, Frame(t), now))
UpdStore(t) ==
    /\ th[t].pc = "upd_store"
    /\ Step(t, step_upd_store(World, Frame(t), now))
Gate(t) ==
    /\ th[t].pc = "gate"
    /\ Step(t, step_gate(World, Frame(t), now))
Match(t) ==
    /\ th[t].pc = "match"
    /\ Step(t, step_match_on(catalog, World, Frame(t), now))

\* time passes: just the timeout, or just over it
Tick(d) ==
    /\ now' = now + d
    /\ ticks' = ticks + 1
    /\ UNCHANGED <<catalog, mem, heap, nextId, th, turns, dead, hist, arg, ret>>

TickSteps == {SESSION_TIMEOUT, SESSION_TIMEOUT + 1}

\* the dict objects some thread still holds a reference to
Held ==
    {th[t].existing :
        t \in {u \in Threads : th[u].pc \in {"upd_write", "upd_ts", "upd_store", "gate", "match"}}}

\* reset_sessions without the clear() of line 38
Reset_keeping ==
    /\ hist' = EmptyDict
    /\ UNCHANGED <<catalog, now, mem, heap, nextId, th, turns, ticks, dead, arg, ret>>

\* reset_sessions: SESSION_MEMORY.clear(); unreferenced dicts are gone
Reset ==
    /\ mem' = EmptyDict
    /\ heap' = [o \in DOMAIN heap \cap Held |-> heap[o]]
    /\ hist' = EmptyDict
    /\ UNCHANGED <<catalog, now, nextId, th, turns, ticks, dead, arg, ret>>

(***************************************************************************)
(* Spec: one client-facing worker serving turn after turn, within the       *)
(* session timeout.                                                         *)
(***************************************************************************)
Next ==
    \/ /\ turns < MaxTurns
       /\ \E s \in Presentable, in \in TurnInputs : Turn(1, s, in[1], in[2])
    \/ Reset

Spec == Init /\ [][Next]_vars

(***************************************************************************)
(* SpecStore: the same worker with the clock advancing between turns.       *)
(***************************************************************************)
NextStore ==
    \/ /\ turns < MaxStoreTurns
       /\ \E s \in Presentable, in \in StoreInputs : Turn(1, s, in[1], in[2])
    \/ /\ ticks < MaxTicks
       /\ \E d \in TickSteps : Tick(d)
    \/ Reset

SpecStore == Init /\ [][NextStore]_vars

(***************************************************************************)
(* SpecConc: two workers whose steps interleave on live sessions.           *)
(***************************************************************************)
NextConc ==
    \/ /\ turns < MaxConcTurns
       /\ \E t \in Threads, s \in Presentable, in \in ConcInputs : Call(t, s, in[1], in[2])
    \/ \E t \in Threads :
          \/ Resolve(t) \/ Refresh(t) \/ UpdCheck(t) \/ UpdGet(t) \/ UpdWrite(t)
          \/ UpdTimestamp(t) \/ UpdStore(t) \/ Gate(t) \/ Match(t)

SpecConc == Init /\ [][NextConc]_vars

(***************************************************************************)
(* SpecRace: one worker whose steps interleave with reset_sessions and with *)
(* the passing of time.                                                     *)
(***************************************************************************)
NextRace ==
    \/ /\ turns < MaxRaceTurns
       /\ \E s \in Presentable, in \in ConcInputs : Call(1, s, in[1], in[2])
    \/ Resolve(1) \/ Refresh(1) \/ UpdCheck(1) \/ UpdGet(1) \/ UpdWrite(1)
    \/ UpdTimestamp(1) \/ UpdStore(1) \/ Gate(1) \/ Match(1)
    \/ /\ ticks < MaxRaceTicks
       /\ \E d \in TickSteps : Tick(d)
    \/ Reset

SpecRace == Init /\ [][NextRace]_vars

(***************************************************************************)
(* SpecPair: two workers serving turns on different sessions, their steps   *)
(* interleaving with each other and with the passing of time.               *)
(***************************************************************************)
\* the session ids thread u is serving
Serving(u) ==
    IF th[u].pc = "idle" THEN {}
    ELSE {th[u].session_arg, th[u].session_id, th[u].upd_session_id} \ {NoSession}

\* no other thread is serving session s
Apart(t, s) == \A u \in Threads \ {t} : s \notin Serving(u)

NextPair ==
    \/ /\ turns < MaxPairTurns
       /\ \E t \in Threads, s \in Presentable, in \in ConcInputs :
             Apart(t, s) /\ Call(t, s, in[1], in[2])
    \/ \E t \in Threads :
          \/ Resolve(t) \/ Refresh(t) \/ UpdCheck(t) \/ UpdGet(t) \/ UpdWrite(t)
          \/ UpdTimestamp(t) \/ UpdStore(t) \/ Gate(t) \/ Match(t)
    \/ /\ ticks < MaxPairTicks
       /\ \E d \in TickSteps : Tick(d)

SpecPair == Init /\ [][NextPair]_vars

(***************************************************************************)
(* SpecReply: the same worker over the catalogs and inputs that take a turn *)
(* through the match stage to each of its replies.                          *)
(***************************************************************************)
InitReply ==
    /\ catalog \in ReplyCatalogs
    /\ now = SESSION_TIMEOUT + 1
    /\ mem = EmptyDict
    /\ heap = EmptyDict
    /\ nextId = 1
    /\ th = [t \in Threads |-> IdleFrame]
    /\ turns = 0
    /\ ticks = 0
    /\ dead = EmptyDict
    /\ hist = EmptyDict
    /\ arg = NoCall
    /\ ret = NoReturn

NextReply ==
    \/ /\ turns < MaxReplyTurns
       /\ \E s \in Presentable, in \in ReplyInputs : Turn(1, s, in[1], in[2])
    \/ Reset

SpecReply == InitReply /\ [][NextReply]_vars

(***************************************************************************)
(* SpecMatcher: match_user_profile and compute_similarity called directly   *)
(* on a catalog, a profile and two token lists drawn from bounded sets.     *)
(***************************************************************************)
ExampleProfile ==
    [hair_type |-> <<chars("dry")>>, hair_texture |-> chars("Fine"), primary_concern |-> chars("Dryness")]

\* profiles as a session stores them: a field without a value has no key
StoredProfiles ==
    {CoreOf(ht, tx, pc, sc) :
        ht \in {<<>>, <<chars("dry")>>, <<chars("damaged"), chars("dry")>>},
        tx \in {<<>>, chars("Fine"), chars("Medium")},
        pc \in {<<>>, chars("Dryness"), chars("Damage")},
        sc \in {<<>>, chars("Split ends")}}

\* and as api/chatbot.py's /analyze builds them: secondary_concern is None
MatcherProfiles ==
    StoredProfiles
      \cup {Put(p, "secondary_concern", None) :
                p \in {q \in StoredProfiles : "secondary_concern" \notin DOMAIN q}}

blank == chars(" ")
padded_dry == chars(" dry ")
TraitLists ==
    {<<>>, <<m_empty>>, <<blank, m_empty>>, <<chars("dry")>>, <<padded_dry, blank>>,
     <<chars("dry"), chars("strawy")>>, <<chars("strawy"), padded_dry, chars("strawy")>>, <<chars("damaged")>>}

InitMatcher ==
    /\ arg \in [op : {"match"}, df : Catalogs, user_data : MatcherProfiles,
                user_traits : {<<>>}, dataset_traits : {<<>>}]
               \cup [op : {"similarity"}, df : {CatalogExample}, user_data : {EmptyDict},
                      user_traits : TraitLists, dataset_traits : TraitLists]
    /\ ret = NoReturn
    /\ catalog = arg.df
    /\ now = SESSION_TIMEOUT + 1
    /\ mem = EmptyDict
    /\ heap = EmptyDict
    /\ nextId = 1
    /\ th = [t \in Threads |-> IdleFrame]
    /\ turns = 0
    /\ ticks = 0
    /\ dead = EmptyDict
    /\ hist = EmptyDict

CallMatch ==
    /\ arg.op = "match"
    /\ ~ret.matched
    /\ ret' = [ret EXCEPT !.matched = TRUE,
                          !.top_matches = match_user_profile_on(arg.df, arg.user_data)]
    /\ UNCHANGED <<catalog, now, mem, heap, nextId, th, turns, ticks, dead, hist, arg>>

CallSimilarity ==
    /\ arg.op = "similarity"
    /\ ~ret.compared
    /\ ret' = [ret EXCEPT !.compared = TRUE,
                          !.similarity = compute_similarity(arg.user_traits, arg.dataset_traits),
                          !.swapped = compute_similarity(arg.dataset_traits, arg.user_traits)]
    /\ UNCHANGED <<catalog, now, mem, heap, nextId, th, turns, ticks, dead, hist, arg>>

NextMatcher == CallMatch \/ CallSimilarity

SpecMatcher == InitMatcher /\ [][NextMatcher]_vars

(***************************************************************************)
(* The claims.                                                              *)
(***************************************************************************)
\* thread t has returned from a turn and has not been handed another
Done(t) == th[t].pc = "idle" /\ th[t].h_turn > 0

OutcomeFlags == {"need_more_info", "need_clarification", "final_recommendation"}

\* the flags present and true in a returned response
FlagsSet(result) == {f \in OutcomeFlags : f \in DOMAIN result /\ result[f] = TRUE}

\* C1: every response to a chat turn has exactly one of the outcome flags
\* need_more_info, need_clarification and final_recommendation set.
C1_ExactlyOneOutcomeFlag ==
    \A t \in Threads : Done(t) => Cardinality(FlagsSet(th[t].result)) = 1

\* the turn C1 fails on: a complete profile matched against a dataset whose
\* matching rows name no product, answered with a message and no flag
C1_NoFlagReturned ==
    \E t \in Threads :
        /\ Done(t)
        /\ FlagsSet(th[t].result) = {}
        /\ th[t].missing = <<>>
        /\ th[t].result.message.text = <<MSG_NO_PRODUCT>>

\* the last two turns returned for session s, when there are two
Consecutive(s) == s \in DOMAIN hist /\ Len(hist[s]) = 2

\* C2: a required profile field that holds a non-empty value is non-empty
\* after every later merge, and a merge whose incoming value for the field is
\* None, "" or [] leaves the stored value as it was.
C2_MonotonicAccumulation ==
    [][\A o \in DOMAIN heap \cap DOMAIN heap' :
          \A f \in Range(required_fields) :
              /\ Truthy(heap[o], f) => Truthy(heap'[o], f)
              /\ \A t \in Threads :
                    /\ th'[t] # th[t]
                    /\ Done(t)'
                    /\ th'[t].existing = o
                    /\ th'[t].new_data[f] \in {NoneOf(f), <<>>}
                    => /\ (f \in DOMAIN heap'[o]) = (f \in DOMAIN heap[o])
                       /\ f \in DOMAIN heap[o] => heap'[o][f] = heap[o][f]]_vars

\* a turn has merged an empty value for a field its session held
C2_EmptyMergedOverValue ==
    \E t \in Threads, f \in Range(required_fields) :
        /\ Done(t)
        /\ Truthy(th[t].h_before, f)
        /\ th[t].new_data[f] \in {NoneOf(f), <<>>}
        /\ th[t].existing \in DOMAIN heap
        /\ Truthy(heap[th[t].existing], f)
        /\ heap[th[t].existing][f] = th[t].h_before[f]

\* C3: of two consecutive turns on one live session that both end with the
\* same non-empty set of missing required fields, the second's message
\* differs from the first's, for every such pair of a sequence.
C3_AntiRepetition ==
    \A s \in DOMAIN hist :
        /\ Consecutive(s)
        /\ hist[s][1].missing # <<>>
        /\ hist[s][1].missing = hist[s][2].missing
        => hist[s][2].message # hist[s][1].message

\* the pair C3 fails on: the generic re-prompt sent twice running
C3_RepromptRepeated ==
    \E s \in DOMAIN hist :
        /\ Consecutive(s)
        /\ hist[s][1].missing # <<>>
        /\ hist[s][1].missing = hist[s][2].missing
        /\ hist[s][1].message.text = <<MSG_REPROMPT>>
        /\ hist[s][2].message.text = <<MSG_REPROMPT>>

\* thread t's turn supplied a non-empty value for profile field k
Supplies(t, k) == Truthy(th[t].new_data, k)

\* both threads have returned from a turn on the stored session they were
\* handed
BothReturnedOn(t, u) ==
    /\ t # u
    /\ Done(t) /\ Done(u)
    /\ th[t].session_arg = th[u].session_arg
    /\ th[t].session_arg \in DOMAIN mem
    /\ th[t].result.session_id = th[t].session_arg
    /\ th[u].result.session_id = th[u].session_arg

\* C4: after two turns on one live session have both finished, however their
\* steps interleaved, a profile field that one supplied and the other did not
\* is stored with the value supplied.
C4_NoLostUpdate ==
    \A t, u \in Threads :
        BothReturnedOn(t, u) =>
            \A k \in Range(ProfileKeys) :
                Supplies(t, k) /\ ~Supplies(u, k) =>
                    /\ k \in DOMAIN heap[mem[th[t].session_arg]]
                    /\ heap[mem[th[t].session_arg]][k] = th[t].new_data[k]

\* two turns that overlapped on one session, each supplying a field the other
\* did not, have both returned
C4_OverlappingTurnsReturned ==
    \E t, u \in Threads :
        /\ BothReturnedOn(t, u)
        /\ th[u].h_turn = th[t].h_turn + 1
        /\ ~th[u].h_alone
        /\ \E k \in Range(ProfileKeys) : Supplies(t, k) /\ ~Supplies(u, k)
        /\ \E k \in Range(ProfileKeys) : Supplies(u, k) /\ ~Supplies(t, k)

\* every profile value of dict d is the one thread t's turn supplied
OnlySupplied(t, d) ==
    \A k \in DOMAIN d \cap Range(ProfileKeys) : Supplies(t, k) /\ d[k] = th[t].new_data[k]

\* C5: a turn that presents a session last active more than 600 seconds ago
\* returns a different, freshly generated id, and no profile value of the old
\* session is in the returned user_profile or in the new session; the old
\* session stays out of reach of every later turn.
C5_ExpiredSessionOutOfReach ==
    /\ \A t \in Threads :
          Done(t) /\ th[t].h_stale =>
              /\ th[t].result.session_id # th[t].session_arg
              /\ th[t].result.session_id >= th[t].h_issued
              /\ OnlySupplied(t, th[t].result.user_profile)
              /\ th[t].result.session_id \in DOMAIN mem
                    => OnlySupplied(t, heap[mem[th[t].result.session_id]])
    /\ \A s \in DOMAIN dead :
          /\ \A t \in Threads : Done(t) => th[t].result.session_id # s
          /\ s \in DOMAIN mem => Stale(World, now, s) /\ heap[mem[s]] = dead[s]

\* a turn has presented an expired session that held a profile value the
\* turn itself did not supply
C5_ExpiredProfilePresented ==
    \E t \in Threads :
        /\ Done(t)
        /\ th[t].h_stale
        /\ th[t].session_arg \in DOMAIN dead
        /\ \E k \in Range(ProfileKeys) :
              Truthy(dead[th[t].session_arg], k) /\ ~Supplies(t, k)

\* the hair_type keywords a turn's input merges, as the analyses report them
\* (or as the fallback scan names them when they report none)
Keywords ==
    [in \in TurnInputs |->
        LET named(reported) ==
                IF reported = <<>> THEN fallback_hair_type(lower(in[1])) ELSE reported
        IN  named(reported_keywords(analyze_text_input(in[1]), in[2]))]

\* a keyword list with the letter case of its tokens ignored
Folded(kws) == [i \in DOMAIN kws |-> lower(kws[i])]

\* C6: merging the same hair_type keywords, in any letter case, into a session
\* twice stores the same hair_type list as merging them once, and no stored
\* hair_type list has two tokens that are equal ignoring case.
C6_HairTypeMergeIdempotent ==
    /\ \A o \in DOMAIN heap :
          LET stored == Get(heap[o], "hair_type", <<>>)
          IN  \A i, j \in DOMAIN stored : lower(stored[i]) = lower(stored[j]) => i = j
    /\ \A s \in DOMAIN hist :
          /\ Consecutive(s)
          /\ Keywords[hist[s][1].input] # <<>>
          /\ Folded(Keywords[hist[s][1].input]) = Folded(Keywords[hist[s][2].input])
          => hist[s][2].hair_type = hist[s][1].hair_type

\* the same keywords were merged twice running, in different letter case
C6_SameKeywordsMergedTwice ==
    \E s \in DOMAIN hist :
        /\ Consecutive(s)
        /\ Keywords[hist[s][1].input] # Keywords[hist[s][2].input]
        /\ Folded(Keywords[hist[s][1].input]) = Folded(Keywords[hist[s][2].input])
        /\ hist[s][2].hair_type = Folded(Keywords[hist[s][2].input])

\* the scores of the catalog entries for the profile handed to the matcher
ScoreOf(i) == total_score(arg.user_data, arg.df[i])

\* entry i comes before entry j: higher score, or equal score and earlier in
\* the catalog
Before(i, j) == ScoreOf(i) > ScoreOf(j) \/ (ScoreOf(i) = ScoreOf(j) /\ i < j)

\* the entries among the first three in that order whose score is positive
Ranked ==
    {i \in DOMAIN arg.df :
        /\ Cardinality({j \in DOMAIN arg.df : Before(j, i)}) < 3
        /\ ScoreOf(i) > 0}

\* C7: match_user_profile returns the catalog entries by descending score,
\* entries of equal score in catalog order, cut to at most 3 entries, and only
\* entries of score > 0.
C7_RankedTopThree ==
    ret.matched =>
        /\ Len(ret.top_matches) = Cardinality(Ranked)
        /\ \A p \in DOMAIN ret.top_matches :
              \E i \in Ranked :
                  /\ Cardinality({j \in Ranked : Before(j, i)}) = p - 1
                  /\ ret.top_matches[p] = ScoredRow(arg.user_data, arg.df[i])

\* three entries were returned of four with a positive score, two of them
\* with equal scores
C7_TieAndCut ==
    /\ ret.matched
    /\ Len(ret.top_matches) = 3
    /\ Cardinality({i \in DOMAIN arg.df : ScoreOf(i) > 0}) > 3
    /\ \E p \in 1..2 : Score(ret.top_matches[p]) = Score(ret.top_matches[p + 1])

\* the score the weights give when an absent profile field contributes 0
ScoreWithAbsentAsZero(user_data, row) ==
    LET hair_type_sim == compute_similarity(Get(user_data, "hair_type", <<>>),
                                            tokenize(Get(row, "Hair Type", <<>>)))
        sim(k, column) ==
            IF k \in DOMAIN user_data
            THEN ContainsSim(user_data[k], Get(row, column, <<>>))
            ELSE 0
    IN  RoundDiv(400 * hair_type_sim.num
                   + hair_type_sim.den
                       * (200 * sim("hair_texture", "Hair Texture")
                            + 250 * sim("primary_concern", "Primary Concern")
                            + 150 * sim("secondary_concern", "Secondary Concern")),
                 hair_type_sim.den)

\* C8: the example entry scores 0.65 for the example profile, which has no
\* secondary_concern, and an absent profile field contributes 0 to the score
\* of every entry.
C8_AbsentFieldScoresZero ==
    ret.matched =>
        /\ arg.df = CatalogExample /\ arg.user_data = ExampleProfile
              => /\ Len(ret.top_matches) = 1
                 /\ Score(ret.top_matches[1]) = 650
        /\ \A i \in DOMAIN arg.df :
              total_score(arg.user_data, arg.df[i])
                  = ScoreWithAbsentAsZero(arg.user_data, arg.df[i])

\* the example as the matcher scores it: 0.8
C8_ExampleScored ==
    /\ ret.matched
    /\ arg.df = CatalogExample
    /\ arg.user_data = ExampleProfile
    /\ Score(ret.top_matches[1]) = 800

\* C9: compute_similarity returns 0 when either token collection is empty or
\* holds only blank tokens, never divides by zero, is symmetric, lies in
\* [0,1], and is 1 only when the trimmed token sets are equal and non-empty.
C9_JaccardLaws ==
    ret.compared =>
        LET sim == ret.similarity
            user_set == TraitSet(arg.user_traits)
            data_set == TraitSet(arg.dataset_traits)
        IN  /\ sim.den > 0
            /\ user_set = {} \/ data_set = {} => sim.num = 0
            /\ ret.swapped.den > 0
            /\ sim.num * ret.swapped.den = ret.swapped.num * sim.den
            /\ 0 <= sim.num /\ sim.num <= sim.den
            /\ sim.num = sim.den => user_set = data_set /\ user_set # {}

\* a list of blank tokens only was compared with a list that has a token
C9_BlankOnlyCompared ==
    /\ ret.compared
    /\ arg.user_traits # <<>>
    /\ TraitSet(arg.user_traits) = {}
    /\ TraitSet(arg.dataset_traits) # {}
    /\ ret.similarity.num = 0

\* C10: the user_profile a turn returns has client-visible profile fields
\* only: hair_type, hair_texture, primary_concern, secondary_concern.
C10_SnapshotClientVisibleOnly ==
    \A t \in Threads :
        Done(t) => DOMAIN th[t].result.user_profile \subseteq Range(ProfileKeys)

\* the snapshot C10 fails on: it carries the activity timestamp and the
\* loop guard
C10_BookkeepingReturned ==
    \E t \in Threads :
        /\ Done(t)
        /\ {"_last_activity", "_last_asked"} \subseteq DOMAIN th[t].result.user_profile

\* every required field of the profile holds a value
Complete(profile) == \A f \in Range(required_fields) : Truthy(profile, f)

\* no entry of the catalog df scores above 0 for the profile
NoScoringEntry(df, profile) ==
    \A i \in DOMAIN df : total_score(Core(profile), df[i]) = 0

\* thread t has just returned from a turn
Returns(t) == th'[t] # th[t] /\ th'[t].pc = "idle"

\* C11: a turn whose profile is complete and for which no catalog entry
\* scores above 0 returns a result with need_more_info as its only flag, its
\* session is stored, and every value the turn supplied is in it.
C11_NoMatchRecovery ==
    [][\A t \in Threads :
          /\ Returns(t)
          /\ Complete(th'[t].result.user_profile)
          /\ NoScoringEntry(catalog, th'[t].result.user_profile)
          => /\ FlagsSet(th'[t].result) = {"need_more_info"}
             /\ "message" \in DOMAIN th'[t].result
             /\ "combined_recommendations" \notin DOMAIN th'[t].result
             /\ th'[t].result.session_id \in DOMAIN mem'
             /\ \A k \in Range(ProfileKeys) :
                   Truthy(th'[t].new_data, k) =>
                       /\ k \in DOMAIN heap'[mem'[th'[t].result.session_id]]
                       /\ heap'[mem'[th'[t].result.session_id]][k] = th'[t].new_data[k]]_vars

\* a turn with a complete profile that no catalog entry scores for has
\* returned, its session still stored
C11_NoEntryScored ==
    \E t \in Threads :
        /\ Done(t)
        /\ Complete(th[t].result.user_profile)
        /\ NoScoringEntry(catalog, th[t].result.user_profile)
        /\ th[t].result.message.text = <<MSG_NO_MATCH>>
        /\ th[t].result.session_id \in DOMAIN mem

\* C12: reset_sessions leaves the store without a session, and a turn that
\* presents an id the store does not hold, as every id issued before a reset
\* is, returns the id generated next and a profile holding only what the
\* turn itself supplied, as does the session stored under the new id.
C12_ResetAll ==
    [][/\ turns' = turns => DOMAIN mem' = {}
       /\ \A t \in Threads :
             /\ Returns(t)
             /\ th'[t].session_arg # NoSession
             /\ th'[t].session_arg \notin DOMAIN mem
             => /\ th'[t].result.session_id = nextId
                /\ th'[t].result.session_id \notin DOMAIN mem
                /\ th'[t].result.session_id \in DOMAIN mem'
                /\ OnlySupplied(t, th[t].result.user_profile)'
                /\ OnlySupplied(t, heap[mem[th[t].result.session_id]])'
                /\ \A k \in Range(ProfileKeys) :
                      Truthy(th'[t].new_data, k) =>
                          k \in DOMAIN th'[t].result.user_profile]_vars

\* a turn presented an id issued earlier whose session a reset had removed,
\* and has returned another id
C12_OldIdPresentedAfterReset ==
    \E t \in Threads :
        /\ Done(t)
        /\ th[t].session_arg # NoSession
        /\ th[t].session_arg \notin DOMAIN mem
        /\ th[t].session_arg < th[t].h_issued
        /\ th[t].result.session_id \in DOMAIN mem
        /\ th[t].result.session_id # th[t].session_arg
        /\ \E k \in Range(ProfileKeys) : ~Supplies(t, k)

\* the one question about a required field
Question(f) ==
    CASE f = "hair_type" -> PROMPT_HAIR_TYPE
      [] f = "hair_texture" -> PROMPT_HAIR_TEXTURE
      [] f = "primary_concern" -> PROMPT_PRIMARY_CONCERN

\* the required fields without a value in a profile, in their fixed order
MissingIn(profile) ==
    LET absent(f) == ~Truthy(profile, f)
    IN  SelectSeq(<<"hair_type", "hair_texture", "primary_concern">>, absent)

\* what the session's _last_asked held when the turn's merge began
LastAsked(t) == Get(th[t].h_before, "_last_asked", <<>>)

\* C13: a turn that ends with a non-empty missing set other than the
\* session's _last_asked returns the questions of exactly the missing fields,
\* one each, in the order hair_type, hair_texture, primary_concern, with
\* need_more_info as its flag, and stores the missing set as _last_asked.
C13_GatePrompt ==
    [][\A t \in Threads :
          /\ Returns(t)
          /\ MissingIn(th'[t].result.user_profile) # <<>>
          /\ LastAsked(t)' # MissingIn(th'[t].result.user_profile)
          => /\ th'[t].result.message.text
                    = [i \in DOMAIN MissingIn(th'[t].result.user_profile) |->
                          Question(MissingIn(th'[t].result.user_profile)[i])]
             /\ th'[t].result.message.products = {}
             /\ FlagsSet(th'[t].result) = {"need_more_info"}
             /\ th'[t].result.session_id \in DOMAIN mem'
             /\ "_last_asked" \in DOMAIN heap'[mem'[th'[t].result.session_id]]
             /\ heap'[mem'[th'[t].result.session_id]]["_last_asked"]
                    = MissingIn(th'[t].result.user_profile)]_vars

\* a turn on a session that had been asked about other fields returned the
\* questions of the two fields still missing
C13_AskedAboutFewerFields ==
    \E t \in Threads :
        /\ Done(t)
        /\ "_last_asked" \in DOMAIN th[t].h_before
        /\ Len(th[t].missing) = 2
        /\ LastAsked(t) # th[t].missing
        /\ Len(th[t].result.message.text) = 2

\* the tokens of old followed by the tokens of new that old does not hold,
\* letter case ignored
UnionOf(old, new) ==
    LET fresh(x) == \A i \in DOMAIN old : lower(old[i]) # lower(x)
    IN  old \o SelectSeq(new, fresh)

\* C14: after a turn that observes hair_type tokens on a session that stores
\* hair_type tokens, the stored hair_type is the tokens stored before, in
\* their order, followed by the observed tokens not among them.
C14_HairTypeUnion ==
    \A t \in Threads :
        /\ Done(t)
        /\ Truthy(th[t].h_before, "hair_type")
        /\ Supplies(t, "hair_type")
        => /\ Truthy(th[t].result.user_profile, "hair_type")
           /\ th[t].result.user_profile["hair_type"]
                  = UnionOf(th[t].h_before["hair_type"], th[t].new_data["hair_type"])

\* the turn C14 fails on: a token stored by an earlier turn is gone from the
\* hair_type the turn leaves
C14_StoredTokenDropped ==
    \E t \in Threads :
        /\ Done(t)
        /\ Truthy(th[t].h_before, "hair_type")
        /\ Supplies(t, "hair_type")
        /\ th[t].result.user_profile["hair_type"] = th[t].new_data["hair_type"]
        /\ \E i \in DOMAIN th[t].h_before["hair_type"] :
              \A j \in DOMAIN th[t].result.user_profile["hair_type"] :
                  lower(th[t].result.user_profile["hair_type"][j])
                      # lower(th[t].h_before["hair_type"][i])

\* the highest score an entry of the catalog df has for the profile
TopScore(df, profile) ==
    LET scores == {total_score(Core(profile), df[i]) : i \in DOMAIN df}
    IN  CHOOSE x \in scores : \A y \in scores : y <= x

\* C15: a turn with a complete profile whose top match score is below 0.6
\* and whose input carried no primary_concern returns need_more_info and
\* neither final_recommendation nor need_clarification.
C15_ConfidenceGate ==
    \A t \in Threads :
        /\ Done(t)
        /\ Complete(th[t].result.user_profile)
        /\ TopScore(catalog, th[t].result.user_profile) < 600
        /\ ~Supplies(t, "primary_concern")
        => FlagsSet(th[t].result) = {"need_more_info"}

\* the turn C15 fails on: a complete profile scoring below 0.6, no
\* primary_concern in the turn's input, answered with a recommendation or a
\* request to choose between products
C15_LowScoreAnswered ==
    \E t \in Threads :
        /\ Done(t)
        /\ Complete(th[t].result.user_profile)
        /\ TopScore(catalog, th[t].result.user_profile) < 600
        /\ ~Supplies(t, "primary_concern")
        /\ catalog = CatalogRange
        /\ "need_more_info" \notin FlagsSet(th[t].result)
        /\ FlagsSet(th[t].result) \cap {"final_recommendation", "need_clarification"} # {}

\* thread t's message names a goal: hydration, repair or nourishment
NamesGoal(t) ==
    \E goal \in {chars("hydration"), chars("repair"), chars("nourishment")} :
        Contains(lower(th[t].message), goal)

\* the distinct Product names of rows
ProductsOf(rows) == {rows[i]["Product"] : i \in DOMAIN rows} \ {None}

\* C16: a turn whose message names a goal, with a complete profile and an
\* entry scoring above 0, returns final_recommendation true and
\* need_clarification false, however many products its matches name.
C16_ClarificationEndsCycle ==
    \A t \in Threads :
        /\ Done(t)
        /\ NamesGoal(t)
        /\ Complete(th[t].result.user_profile)
        /\ ~NoScoringEntry(catalog, th[t].result.user_profile)
        => /\ {"final_recommendation", "need_clarification", "matches"}
                  \subseteq DOMAIN th[t].result
           /\ th[t].result.final_recommendation = TRUE
           /\ th[t].result.need_clarification = FALSE
           /\ FlagsSet(th[t].result) = {"final_recommendation"}

\* a reply naming a goal was answered with matches of two products
C16_RepliedWithTwoProducts ==
    \E t \in Threads :
        /\ Done(t)
        /\ NamesGoal(t)
        /\ "matches" \in DOMAIN th[t].result
        /\ Cardinality(ProductsOf(th[t].result.matches)) > 1
        /\ th[t].result.final_recommendation = TRUE

\* a row's concern tags name the category c
Tagged(row, c) ==
    \/ Get(row, "Primary Concern", None) = c
    \/ Get(row, "Secondary Concern", None) = c

\* the matches the ranker returns for a profile, as a response carries them
RankedFor(df, profile) == sanitize_rows(match_user_profile_on(df, Core(profile)))

\* the rows of ranked tagged with c, in ranked order, or all of ranked when
\* none is
TaggedOrAll(ranked, c) ==
    LET tagged(row) == Tagged(row, c)
    IN  IF SelectSeq(ranked, tagged) = <<>> THEN ranked ELSE SelectSeq(ranked, tagged)

\* C17: the matches a clarification reply returns are the ranked matches
\* tagged with the concern the reply resolved to, in ranked order and
\* whatever their Product, or all the ranked matches when none is tagged so.
C17_FilterByConcernTag ==
    \A t \in Threads :
        /\ Done(t)
        /\ NamesGoal(t)
        /\ "matches" \in DOMAIN th[t].result
        => th[t].result.matches
               = TaggedOrAll(RankedFor(catalog, th[t].result.user_profile),
                             th[t].result.user_profile["primary_concern"])

\* the reply C17 fails on: its matches hold a row tagged with the resolved
\* concern and a row that is not
C17_UntaggedRowReturned ==
    \E t \in Threads :
        /\ Done(t)
        /\ NamesGoal(t)
        /\ "matches" \in DOMAIN th[t].result
        /\ \E i, j \in DOMAIN th[t].result.matches :
              /\ Tagged(th[t].result.matches[i], th[t].result.user_profile["primary_concern"])
              /\ ~Tagged(th[t].result.matches[j], th[t].result.user_profile["primary_concern"])

\* the synonym table: the words that resolve to a concern
SynonymTable ==
    {<<chars("hydration"), chars("Dryness")>>, <<chars("moisture"), chars("Dryness")>>,
     <<chars("moisturizing"), chars("Dryness")>>, <<chars("repair"), chars("Damage")>>,
     <<chars("regeneration"), chars("Damage")>>, <<chars("nourishment"), chars("Nutrition")>>,
     <<chars("nutrition"), chars("Nutrition")>>, <<chars("shine"), chars("Dullness")>>,
     <<chars("smooth"), chars("Frizz Control")>>,
     <<chars("color protection"), chars("Color Care")>>}

\* the concerns the table assigns to the words of a text
Assigned(text) ==
    {row[2] : row \in {r \in SynonymTable : Contains(lower(text), r[1])}}

\* C18: after a turn whose message names a goal, the session's
\* primary_concern is a concern the synonym table assigns to the message (the
\* one concern, when the message has words of one concern only), whatever the
\* session stored before and whatever the text analysis extracted.
C18_ClarificationOverride ==
    [][\A t \in Threads :
          Returns(t) /\ NamesGoal(t)'
          => /\ th'[t].result.session_id \in DOMAIN mem'
             /\ Truthy(heap'[mem'[th'[t].result.session_id]], "primary_concern")
             /\ heap'[mem'[th'[t].result.session_id]]["primary_concern"]
                    \in Assigned(th'[t].message)
             /\ th'[t].result.user_profile["primary_concern"]
                    = heap'[mem'[th'[t].result.session_id]]["primary_concern"]]_vars

\* a reply naming a goal replaced the primary_concern an earlier turn had
\* stored, by a value other than the one the text analysis extracted
C18_StoredConcernReplaced ==
    \E t \in Threads :
        /\ Done(t)
        /\ NamesGoal(t)
        /\ Truthy(th[t].h_before, "primary_concern")
        /\ th[t].result.user_profile["primary_concern"] # th[t].h_before["primary_concern"]
        /\ th[t].result.user_profile["primary_concern"]
               # analyze_text_input(th[t].message).primary_concern
        /\ Assigned(th[t].message) = {th[t].result.user_profile["primary_concern"]}

\* the rows of the Products named in ps
RowsOf(rows, ps) ==
    LET named(row) == row["Product"] \in ps
    IN  SelectSeq(rows, named)

\* C19: a turn whose message names no goal, with a complete profile and
\* matches, returns final_recommendation with all the matched rows of the
\* product as combined_recommendations when the matches name one product, and
\* need_clarification with the product names as options, and no
\* final_recommendation, when they name more than one.
C19_Disambiguation ==
    \A t \in Threads :
        /\ Done(t)
        /\ ~NamesGoal(t)
        /\ Complete(th[t].result.user_profile)
        /\ RankedFor(catalog, th[t].result.user_profile) # <<>>
        => /\ Cardinality(ProductsOf(RankedFor(catalog, th[t].result.user_profile))) = 1
                 => /\ FlagsSet(th[t].result) = {"final_recommendation"}
                    /\ th[t].result.combined_recommendations
                           = RowsOf(RankedFor(catalog, th[t].result.user_profile),
                                    ProductsOf(RankedFor(catalog, th[t].result.user_profile)))
           /\ Cardinality(ProductsOf(RankedFor(catalog, th[t].result.user_profile))) > 1
                 => /\ FlagsSet(th[t].result) = {"need_clarification"}
                    /\ th[t].result.options
                           = ProductsOf(RankedFor(catalog, th[t].result.user_profile))
                    /\ "final_recommendation" \notin DOMAIN th[t].result
                    /\ "combined_recommendations" \notin DOMAIN th[t].result

\* a turn naming no goal was answered with the two rows of the one product
\* its matches name
C19_RoutineRecommended ==
    \E t \in Threads :
        /\ Done(t)
        /\ ~NamesGoal(t)
        /\ "combined_recommendations" \in DOMAIN th[t].result
        /\ Len(th[t].result.combined_recommendations) = 2
        /\ Cardinality(ProductsOf(th[t].result.matches)) = 1

\* neither the image analysis nor the text analysis of thread t's turn
\* reported a hair_type keyword
NoExtractorToken(t) ==
    reported_keywords(analyze_text_input(th[t].message), th[t].image) = <<>>

\* C20: a turn without extractor tokens on a session that stores hair_type
\* tokens leaves the stored hair_type as it was, whatever its message
\* contains; the substring scan of the message changes the stored hair_type
\* only when the session holds none.
C20_FallbackOnlyWhenEmpty ==
    \A t \in Threads :
        /\ Done(t)
        /\ Truthy(th[t].h_before, "hair_type")
        /\ NoExtractorToken(t)
        => /\ Truthy(th[t].result.user_profile, "hair_type")
           /\ th[t].result.user_profile["hair_type"] = th[t].h_before["hair_type"]

\* the turn C20 fails on: the scan of its message replaced the hair_type
\* tokens its session stored
C20_FallbackReplacedStored ==
    \E t \in Threads :
        /\ Done(t)
        /\ Truthy(th[t].h_before, "hair_type")
        /\ NoExtractorToken(t)
        /\ th[t].result.user_profile["hair_type"] = fallback_hair_type(lower(th[t].message))
        /\ th[t].result.user_profile["hair_type"] # th[t].h_before["hair_type"]

\* C21: a session whose profile holds all three required fields carries no
\* _last_asked, or an empty one: the turn that finds nothing missing clears
\* it.
C21_LastAskedCleared ==
    /\ \A t \in Threads :
          Done(t) /\ Complete(th[t].result.user_profile)
          => Get(th[t].result.user_profile, "_last_asked", <<>>) = <<>>
    /\ \A s \in DOMAIN mem :
          Complete(heap[mem[s]]) => Get(heap[mem[s]], "_last_asked", <<>>) = <<>>

\* the turn C21 fails on: it found nothing missing and went on to the match,
\* and its session still holds the fields an earlier turn asked about
C21_StaleLastAsked ==
    \E t \in Threads :
        /\ Done(t)
        /\ th[t].missing = <<>>
        /\ "matches" \in DOMAIN th[t].result
        /\ th[t].result.session_id \in DOMAIN mem
        /\ Complete(heap[mem[th[t].result.session_id]])
        /\ Get(heap[mem[th[t].result.session_id]], "_last_asked", <<>>) # <<>>

\* C22: a session a turn has found expired is destroyed by that access: the
\* store holds no entry that an earlier turn met with its timeout elapsed.
C22_ExpiredEntryDestroyed ==
    \A s \in DOMAIN dead : s \notin DOMAIN mem

\* the turn C22 fails on: it presented an expired session, was given a new
\* one, and the expired entry is in the store as the turn met it
C22_ExpiredEntryKept ==
    \E t \in Threads :
        /\ Done(t)
        /\ th[t].h_stale
        /\ th[t].result.session_id # th[t].session_arg
        /\ th[t].session_arg \in DOMAIN dead
        /\ th[t].session_arg \in DOMAIN mem
        /\ heap[mem[th[t].session_arg]] = dead[th[t].session_arg]

\* the seconds since the last activity stored for session s
IdleFor(s) == now - LastActivity(World, s)

\* C23: a turn that presents a stored session id at most 600 seconds after
\* the session's last activity (exactly 600 included) returns that id, with
\* every value the session held and the turn did not supply and every value
\* the turn supplied, and leaves the session's last activity at the time of
\* the turn; hence a turn served alone never meets as expired a session whose
\* last activity is at most 600 seconds old.
C23_KeepAlive ==
    [][\A t \in Threads :
          /\ Returns(t)
          /\ th'[t].session_arg \in DOMAIN mem
          /\ "_last_activity" \in DOMAIN heap[mem[th'[t].session_arg]]
          /\ IdleFor(th'[t].session_arg) <= SESSION_TIMEOUT
          => /\ ~th'[t].h_stale
             /\ th'[t].result.session_id = th'[t].session_arg
             /\ th'[t].session_arg \in DOMAIN mem'
             /\ mem'[th'[t].session_arg] = mem[th'[t].session_arg]
             /\ heap'[mem'[th'[t].session_arg]]["_last_activity"] = now
             /\ th'[t].result.user_profile["_last_activity"] = now
             /\ \A f \in Range(ProfileKeys) :
                   /\ Truthy(heap[mem[th'[t].session_arg]], f) /\ ~Supplies(t, f)'
                      => /\ th'[t].result.user_profile[f] = heap[mem[th'[t].session_arg]][f]
                         /\ heap'[mem'[th'[t].session_arg]][f] = heap[mem[th'[t].session_arg]][f]
                   /\ Supplies(t, f)' => Truthy(th'[t].result.user_profile, f)]_vars

\* a turn has presented a session exactly 600 seconds after its last
\* activity, the session held a value the turn did not supply, and the turn
\* returned the same id
C23_ServedAtTheTimeout ==
    \E t \in Threads :
        /\ Done(t)
        /\ th[t].h_last > 0
        /\ th[t].result.user_profile["_last_activity"] - th[t].h_last = SESSION_TIMEOUT
        /\ th[t].result.session_id = th[t].session_arg
        /\ \E f \in Range(ProfileKeys) : Truthy(th[t].h_before, f) /\ ~Supplies(t, f)

\* the texts the completeness gate answers with: the questions about missing
\* fields and the generic re-prompt
GateTexts == {PROMPT_HAIR_TYPE, PROMPT_HAIR_TEXTURE, PROMPT_PRIMARY_CONCERN, MSG_REPROMPT}

\* C24: a session's profile is complete from the turn that passed the
\* completeness gate on: a turn that presents a session stored with all three
\* required fields finds nothing missing, does not answer with a question
\* about a missing field or with the generic re-prompt, and leaves the
\* session complete for the turns after it.
C24_CompletenessStable ==
    [][\A t \in Threads :
          /\ Returns(t)
          /\ th'[t].session_arg \in DOMAIN mem
          /\ Complete(heap[mem[th'[t].session_arg]])
          => /\ th'[t].result.session_id = th'[t].session_arg
             /\ th'[t].missing = <<>>
             /\ Range(th'[t].result.message.text) \cap GateTexts = {}
             /\ th'[t].session_arg \in DOMAIN mem'
             /\ Complete(heap'[mem'[th'[t].session_arg]])
             /\ Complete(th'[t].result.user_profile)]_vars

\* a turn that did not supply every required field was served on a session
\* whose earlier turn had passed the gate
C24_LaterTurnOnCompleteSession ==
    \E t \in Threads :
        /\ Done(t)
        /\ Complete(th[t].h_before)
        /\ th[t].result.session_id = th[t].session_arg
        /\ Consecutive(th[t].session_arg)
        /\ hist[th[t].session_arg][1].missing = <<>>
        /\ \E f \in Range(required_fields) : ~Supplies(t, f)

\* the dict thread t merged its values into is stored under the id
\* update_session used
MergedEntryStored(t) ==
    /\ th[t].upd_session_id \in DOMAIN mem
    /\ mem[th[t].upd_session_id] = th[t].existing

\* C25: when a turn ends with the entry it merged its values into still in
\* the store, the session_id it returns names that entry, and the entry's
\* profile is the returned user_profile, whatever reset_sessions and the
\* clock did between the turn's get_or_create_session and its
\* update_session.
C25_ReturnedIdNamesMergedEntry ==
    [][\A t \in Threads :
          Returns(t) /\ MergedEntryStored(t)'
          => /\ th'[t].result.session_id \in DOMAIN mem'
             /\ mem'[th'[t].result.session_id] = th'[t].existing
             /\ sanitize(heap'[mem'[th'[t].result.session_id]])
                   = th'[t].result.user_profile]_vars

\* the turn C25 fails on: its values are stored under an id that
\* update_session generated, and it returned the id that
\* get_or_create_session had given it
C25_MergedUnderAnotherId ==
    \E t \in Threads :
        /\ Done(t)
        /\ MergedEntryStored(t)
        /\ sanitize(heap[th[t].existing]) = th[t].result.user_profile
        /\ th[t].result.session_id # th[t].upd_session_id
        /\ \/ th[t].result.session_id \notin DOMAIN mem
           \/ mem[th[t].result.session_id] # th[t].existing

\* the session ids thread t's turn is about: the one presented, the one
\* get_or_create_session gave it, the one update_session used
Own(t) == {th[t].session_arg, th[t].session_id, th[t].upd_session_id}

\* C26: a step of a turn leaves every session of the store that is not the
\* turn's own as it was: the same dict under the same id, with the same
\* profile fields, _last_asked and _last_activity, whatever steps of turns on
\* other sessions come before and after it.
C26_SessionIsolation ==
    [][\A t \in Threads :
          th'[t] # th[t]
          => \A s \in DOMAIN mem \ Own(t)' :
                /\ s \in DOMAIN mem'
                /\ mem'[s] = mem[s]
                /\ heap'[mem'[s]] = heap[mem[s]]]_vars

\* a turn called while another was in flight has returned, the other turn is
\* still being served on a different stored session, and the two sessions
\* hold different last activities and different profiles
C26_TurnsOnTwoSessions ==
    \E t \in Threads, u \in Threads :
        /\ t # u
        /\ Done(t)
        /\ ~th[t].h_alone
        /\ th[u].pc \in {"upd_write", "upd_ts", "upd_store", "gate", "match"}
        /\ th[t].result.session_id \in DOMAIN mem
        /\ th[u].upd_session_id \in DOMAIN mem
        /\ th[t].result.session_id # th[u].upd_session_id
        /\ "_last_asked" \in DOMAIN heap[mem[th[t].result.session_id]]
        /\ "_last_asked" \notin DOMAIN heap[mem[th[u].upd_session_id]]
        /\ heap[mem[th[t].result.session_id]]["_last_activity"]
              # heap[mem[th[u].upd_session_id]]["_last_activity"]

=============================================================================
